---- MODULE Spec2Model ----
(***************************************************************************)
(* sendEmailViaSMTP of the Hotel-Management repository: the raw SMTP       *)
(* client (configuration check, connect, implicit TLS or STARTTLS upgrade, *)
(* readResponse / readMultiLineResponse framing, the command sequence,     *)
(* catch / finally) run against a nondeterministic SMTP server.            *)
(*                                                                         *)
(* Bytes are one-character strings; a chunk is what one reader.read()      *)
(* delivers.  The server answers every command it receives with one reply  *)
(* (several lines where env.multi allows it), cut into chunks at arbitrary *)
(* positions, and may truncate a reply, close or reset the connection.     *)
(* Under Init the server answers only EHLO with several lines, the one     *)
(* response the client reads with readMultiLineResponse; env.multi names   *)
(* the steps that may be answered multi-line.                              *)
(*                                                                         *)
(* The MIME composer (lines 338-382) is an operator over token sequences;  *)
(* SpecCompose runs it on every request of Requests.  SpecPair interleaves *)
(* two calls, each with its own server, at their await points.             *)
(***************************************************************************)
EXTENDS Integers, Sequences, FiniteSets, TLC

\* ---------------------------------------------------------------- bounds
\* most lines in one server reply (continuation lines + the final line)
MaxLines == 2
\* most chunks (socket reads) one server reply is cut into
MaxChunks == 2
\* most attachments of one email
MaxAttachments == 2

\* ------------------------------------------------------------ characters
CR == "\r"
LF == "\n"
Digits == {"0", "1", "2", "3", "4", "5", "6", "7", "8", "9"}
Whitespace == {" ", "\t", CR, LF}

C220 == <<"2", "2", "0">>
C221 == <<"2", "2", "1">>
C235 == <<"2", "3", "5">>
C250 == <<"2", "5", "0">>
C334 == <<"3", "3", "4">>
C354 == <<"3", "5", "4">>
C454 == <<"4", "5", "4">>
C504 == <<"5", "0", "4">>
C535 == <<"5", "3", "5">>
C550 == <<"5", "5", "0">>
C552 == <<"5", "5", "2">>
C554 == <<"5", "5", "4">>

\* the literal '250 OK' readResponse returns when the connection is closed
\* and nothing was received
OK250 == <<"2", "5", "0", " ", "O", "K">>

\* --------------------------------------------------- string primitives
\* String.prototype.startsWith
StartsWith(s, p) == Len(s) >= Len(p) /\ SubSeq(s, 1, Len(p)) = p

RECURSIVE TrimStart(_)
TrimStart(s) ==
    IF s # <<>> /\ Head(s) \in Whitespace THEN TrimStart(Tail(s)) ELSE s

RECURSIVE TrimEnd(_)
TrimEnd(s) ==
    IF s # <<>> /\ s[Len(s)] \in Whitespace
    THEN TrimEnd(SubSeq(s, 1, Len(s) - 1)) ELSE s

\* String.prototype.trim
Trim(s) == TrimEnd(TrimStart(s))

\* positions at which a "\r\n" separator starts
CRLFPos(s) == {i \in 1..(Len(s) - 1) : s[i] = CR /\ s[i + 1] = LF}

SetMin(S) == CHOOSE x \in S : \A y \in S : x <= y
SetMax(S) == CHOOSE x \in S : \A y \in S : x >= y

\* response.split('\r\n').length > 1
HasLine(s) == CRLFPos(s) # {}

\* response.split('\r\n')[0]
FirstLine(s) == IF HasLine(s) THEN SubSeq(s, 1, SetMin(CRLFPos(s)) - 1) ELSE s

\* lines[lines.length - 2] of response.split('\r\n'): the last complete line
LastCompleteLine(s) ==
    LET last == SetMax(CRLFPos(s))
        before == {i \in CRLFPos(s) : i < last}
        from == IF before = {} THEN 1 ELSE SetMax(before) + 2
    IN SubSeq(s, from, last - 1)

\* lines[lines.length - 1] of response.split('\r\n'): the incomplete rest
LastFragment(s) ==
    IF HasLine(s) THEN SubSeq(s, SetMax(CRLFPos(s)) + 2, Len(s)) ELSE s

\* variant: every line that starts with a status code ends the response
IsFinalLineAnyStatus(l) ==
    /\ Len(l) >= 3
    /\ l[1] \in Digits /\ l[2] \in Digits /\ l[3] \in Digits

\* lastLine.match(/^\d{3}\s/)
IsFinalLine(l) ==
    /\ Len(l) >= 4
    /\ l[1] \in Digits /\ l[2] \in Digits /\ l[3] \in Digits
    /\ l[4] \in Whitespace

\* a || b on strings: the empty string is falsy
OrElse(a, b) == IF a # <<>> THEN a ELSE b

\* ------------------------------------------------------- protocol steps
\* the exchanges of the SMTP conversation, in source order
Steps == {"greet", "ehlo", "starttls", "ehlo2", "auth", "user", "pass",
          "mail", "rcpt", "data", "body", "quit"}

\* the steps whose response is read by readMultiLineResponse
EhloSteps == {"ehlo", "ehlo2"}

\* ------------------------------------------------------------ the server
\* status codes the server may answer a step with: the expected one and a
\* refusal (EHLO is always answered 250)
Codes(s) ==
    CASE s = "greet"    -> {C220, C554}
      [] s = "ehlo"     -> {C250}
      [] s = "starttls" -> {C220, C454}
      [] s = "ehlo2"    -> {C250}
      [] s = "auth"     -> {C334, C504}
      [] s = "user"     -> {C334, C535}
      [] s = "pass"     -> {C235, C535}
      [] s = "mail"     -> {C250, C550}
      [] s = "rcpt"     -> {C250, C550}
      [] s = "data"     -> {C354, C554}
      [] s = "body"     -> {C250, C552}
      [] s = "quit"     -> {C221, C554}

\* one response line: status code, separator ("-" continuation, " " final)
ReplyLine(code, sep) == code \o <<sep, CR, LF>>

\* a complete reply of n lines: n-1 continuation lines, then the final line
RECURSIVE Reply(_, _)
Reply(code, n) ==
    IF n <= 1 THEN ReplyLine(code, " ")
    ELSE ReplyLine(code, "-") \o Reply(code, n - 1)

\* the ways a byte sequence arrives in at most k non-empty socket reads
RECURSIVE Chunkings(_, _)
Chunkings(b, k) ==
    {<<b>>} \cup
    (IF k <= 1 THEN {}
     ELSE UNION {{<<SubSeq(b, 1, i)>> \o c :
                    c \in Chunkings(SubSeq(b, i + 1, Len(b)), k - 1)} :
                 i \in 1..(Len(b) - 1)})

\* ------------------------------------------------------------- composer
\* Text is a sequence of tokens: a token is a character or a piece of text
\* without line breaks (a header name, an address, a file name).
CRLF == <<CR, LF>>

\* Array.prototype.join
RECURSIVE Join(_, _)
Join(lines, sep) ==
    IF lines = <<>> THEN <<>>
    ELSE IF Len(lines) = 1 THEN lines[1]
    ELSE lines[1] \o sep \o Join(Tail(lines), sep)

\* String.prototype.split('\r\n')
RECURSIVE SplitLines(_)
SplitLines(b) ==
    IF CRLFPos(b) = {} THEN <<b>>
    ELSE LET p == SetMin(CRLFPos(b)) IN
         <<SubSeq(b, 1, p - 1)>> \o SplitLines(SubSeq(b, p + 2, Len(b)))

\* the alphabet of btoa
Base64Alphabet ==
    <<"A", "B", "C", "D", "E", "F", "G", "H", "I", "J", "K", "L", "M",
      "N", "O", "P", "Q", "R", "S", "T", "U", "V", "W", "X", "Y", "Z",
      "a", "b", "c", "d", "e", "f", "g", "h", "i", "j", "k", "l", "m",
      "n", "o", "p", "q", "r", "s", "t", "u", "v", "w", "x", "y", "z",
      "0", "1", "2", "3", "4", "5", "6", "7", "8", "9", "+", "/">>

\* variant: every sextet is encoded as its successor
SextetShifted(n) == Base64Alphabet[((n + 1) % 64) + 1]

Sextet(n) == Base64Alphabet[n + 1]

\* btoa(String.fromCharCode(...content)): content is a Uint8Array
RECURSIVE Base64(_)
Base64(bytes) ==
    IF Len(bytes) = 0 THEN <<>>
    ELSE IF Len(bytes) = 1
    THEN <<Sextet(bytes[1] \div 4), Sextet((bytes[1] % 4) * 16), "=", "=">>
    ELSE IF Len(bytes) = 2
    THEN <<Sextet(bytes[1] \div 4),
           Sextet((bytes[1] % 4) * 16 + bytes[2] \div 16),
           Sextet((bytes[2] % 16) * 4), "=">>
    ELSE <<Sextet(bytes[1] \div 4),
           Sextet((bytes[1] % 4) * 16 + bytes[2] \div 16),
           Sextet((bytes[2] % 16) * 4 + bytes[3] \div 64),
           Sextet(bytes[3] % 64)>>
         \o Base64(SubSeq(bytes, 4, Len(bytes)))

\* the line length of /.{1,76}/g
WrapWidth == 76

\* variant: the lines are one character longer
RECURSIVE WrapWide(_, _)
WrapWide(text, w) ==
    IF Len(text) <= w + 1 THEN <<text>>
    ELSE <<SubSeq(text, 1, w + 1)>>
         \o WrapWide(SubSeq(text, w + 2, Len(text)), w)

\* base64Content.match(/.{1,76}/g) || [base64Content]
RECURSIVE Wrap(_, _)
Wrap(text, w) ==
    IF Len(text) <= w THEN <<text>>
    ELSE <<SubSeq(text, 1, w)>> \o Wrap(SubSeq(text, w + 1, Len(text)), w)

\* `----=_NextPart_${Date.now()}_${Math.random().toString(36).substring(7)}`
Boundary(c) == <<"----=_NextPart_", c.now, "_", c.rnd>>

OpeningDelimiter(b) == <<"--">> \o b

\* variant: the last delimiter is an opening one
ClosingDelimiterUnterminated(b) == <<"--">> \o b

ClosingDelimiter(b) == <<"--">> \o b \o <<"--">>

MultipartContentType(b) ==
    <<"Content-Type: multipart/mixed; boundary=\"">> \o b \o <<"\"">>

HtmlContentType == <<"Content-Type: text/html; charset=UTF-8">>
Html8Bit == <<"Content-Transfer-Encoding: 8bit">>
AttachmentBase64 == <<"Content-Transfer-Encoding: base64">>
AttachmentContentType(a) == <<"Content-Type: ", a.contentType>>
AttachmentDisposition(a) ==
    <<"Content-Disposition: attachment; filename=\"", a.filename, "\"">>

\* variant: an empty attachment list counts as attachments
HasAttachmentsIfDefined(o) == o.attachments.defined

\* options.attachments && options.attachments.length > 0
HasAttachments(o) == o.attachments.defined /\ Len(o.attachments.list) > 0

\* lines 361-370: the lines one attachment adds to the message
AttachmentPart(a, b) ==
    <<<<>>, OpeningDelimiter(b), AttachmentContentType(a),
      AttachmentDisposition(a), AttachmentBase64, <<>>>>
    \o Wrap(Base64(a.content), WrapWidth)

\* lines 360-371: the loop over options.attachments
RECURSIVE AttachmentParts(_, _)
AttachmentParts(list, b) ==
    IF list = <<>> THEN <<>>
    ELSE AttachmentPart(Head(list), b) \o AttachmentParts(Tail(list), b)

\* lines 342-380: the lines of the message, before they are joined
Compose(o, b) ==
    LET head == <<<<"From: ", o.from>>, <<"To: ", o.to>>,
                  <<"Subject: ", o.subject>>, <<"MIME-Version: 1.0">>>>
    IN IF HasAttachments(o)
       THEN head
            \o <<MultipartContentType(b), <<>>, OpeningDelimiter(b),
                 HtmlContentType, Html8Bit, <<>>, o.html>>
            \o AttachmentParts(o.attachments.list, b)
            \o <<ClosingDelimiter(b)>>
       ELSE head \o <<HtmlContentType, Html8Bit, <<>>, o.html>>

\* ---------------------------------------------------------------- inputs
\* HTML bodies: empty, one line, several lines, an empty line, a lone dot
Htmls ==
    {<<>>,
     <<"<p>Dear guest</p>">>,
     <<"<p>Dear guest</p>", CR, LF, "<p>Thank you</p>">>,
     <<"<p>Dear guest</p>", CR, LF, CR, LF, ".">>,
     <<".", CR, LF>>}

\* the bytes of an attachment of n bytes
FileBytes(n, seed) == [i \in 1..n |-> (seed + 37 * i) % 256]

\* attachment sizes: none, below, at and above one base64 group, one line of
\* base64 text (57 bytes), and 76 bytes
ContentLengths == {0, 1, 2, 3, 57, 58, 75, 76, 77}

\* the sizes of the second kind of file
LogoLengths == {0, 58, 77}

Attachments ==
    {[filename |-> "invoice.pdf", contentType |-> "application/pdf",
      content |-> FileBytes(n, 0)] : n \in ContentLengths}
    \cup
    {[filename |-> "logo.png", contentType |-> "image/png",
      content |-> FileBytes(n, 200)] : n \in LogoLengths}

\* lists of at most n attachments
RECURSIVE AttachmentLists(_)
AttachmentLists(n) ==
    IF n = 0 THEN {<<>>}
    ELSE AttachmentLists(n - 1) \cup
         {Append(l, a) : l \in AttachmentLists(n - 1), a \in Attachments}

\* the requests the composer is run on
Requests ==
    {[from |-> "hotel@example.com", to |-> "guest@example.com",
      subject |-> "Booking Confirmation", html |-> h, attachments |-> at] :
       h \in Htmls,
       at \in {[defined |-> FALSE, list |-> <<>>]} \cup
              {[defined |-> TRUE, list |-> l] :
                 l \in AttachmentLists(MaxAttachments)}}

Clocks == [now : {"1700000000000", "1700000000001"}, rnd : {"k3x9q"}]

\* the request and the clock of the protocol runs
SessionRequests ==
    {r \in Requests :
       /\ r.html = <<"<p>Dear guest</p>">>
       /\ r.attachments.defined
       /\ Len(r.attachments.list) = 1
       /\ r.attachments.list[1].filename = "invoice.pdf"
       /\ Len(r.attachments.list[1].content) = 3}
SessionClocks == {c \in Clocks : c.now = "1700000000000"}

\* the requests of the runs that look at the bytes on the wire
WireRequests ==
    {r \in Requests :
       \/ ~r.attachments.defined
       \/ /\ Len(r.attachments.list) = 1
          /\ r.attachments.list[1].filename = "invoice.pdf"
          /\ Len(r.attachments.list[1].content) = 3}

\* no second call
NoSession == [pc |-> "none"]

\* the exchanges during which a server of two concurrent calls may fail
PairFaults == {"greet"}

\* ------------------------------------------------- payment confirmation
\* how many requests the two payment handlers serve in one behaviour
MaxCalls == 2

CallIds == 1..MaxCalls

\* Deno.env.get('RAZORPAY_KEY_SECRET') when it is configured
KeySecret == "key_secret"

\* createHmac('sha256', key).update(text).digest('hex'): equal digests
\* only for an equal key and an equal text
Hmac(key, text) == <<"sha256", key, text>>

\* `${orderId}|${paymentId}`
SignedText(orderId, paymentId) == <<orderId, "|", paymentId>>

BillIds == {"b1", "b0"}
PaymentIds == {"pay_1", "pay_2"}
OrderIds == {"order_1"}

\* the signatures a verification request may carry: the gateway's, one
\* made with a guessed key, and the gateway's for the two ids swapped
VerifySignatures(orderId, paymentId) ==
    { Hmac(KeySecret, SignedText(orderId, paymentId)),
      Hmac("guess", SignedText(orderId, paymentId)),
      Hmac(KeySecret, SignedText(paymentId, orderId)) }

\* what GET /v1/payments/:id answers: no 2xx, or the payment's status
GatewayAnswers == {"not ok", "failed", "authorized", "captured"}

\* the verification handler's condition on paymentData.status; the webhook's too
StatusSuccessful(status) == status \in {"authorized", "captured"}

\* a webhook body: payload.event, payment.id, payment.status,
\* payment.notes.bill_id ("" when absent) and whether payment.amount is
\* within 5 rupees of the bill's total with tax
WebhookBody(event, id, status, bill_id, amountMatches) ==
    [event |-> event, id |-> id, status |-> status, bill_id |-> bill_id,
     amountMatches |-> amountMatches]

NoBody == WebhookBody("", "", "", "", FALSE)

WebhookBodies ==
    { WebhookBody("", "pay_1", "captured", "b1", FALSE),
      WebhookBody("payment.failed", "pay_1", "failed", "b1", FALSE) }
    \cup { WebhookBody("payment.captured", p, s, "b1", FALSE) :
             p \in PaymentIds, s \in {"captured", "failed"} }
    \cup { WebhookBody("payment.authorized", p, "authorized", "", a) :
             p \in PaymentIds, a \in BOOLEAN }

\* the same delivery with another payment's id in it
Tampered(body) ==
    [body EXCEPT !.id = IF body.id = "pay_1" THEN "pay_2" ELSE "pay_1"]

\* req.headers.get('x-razorpay-signature') when the header is absent
NoHeader == <<>>

\* the x-razorpay-signature headers a delivery may carry
WebhookSignatures(body) ==
    { Hmac(KeySecret, body), Hmac("guess", body),
      Hmac(KeySecret, Tampered(body)), NoHeader }

\* how the invoice e-mail block of a handler can end
InvoiceOutcomes ==
    {"fetch failed", "no guest email", "pdf failed", "smtp failed", "sent"}

NoResponse == [status |-> 0, message |-> ""]
Respond(status, message) == [status |-> status, message |-> message]

\* a request slot before its request arrives
IdleCall ==
    [pc |-> "idle", kind |-> "", billId |-> "", paymentId |-> "",
     orderId |-> "", signature |-> NoHeader, body |-> NoBody, status |-> "",
     updated |-> FALSE, invoice |-> "none", response |-> NoResponse]

\* the bills row before any payment
UnpaidBill == [id |-> "b1", paid |-> FALSE, razorpay_payment_id |-> ""]

\* ----------------------------------------------------------------- state
VARIABLES
    cfg,        \* SMTP_USER, SMTP_PASSWORD, SMTP_SECURE of the environment
    env,        \* the servers: the steps answered multi-line, the chunks per
                \* reply, the exchanges during which a server may fail
    pc,         \* position of sendEmailViaSMTP
    step,       \* the exchange the send is in
    conn,       \* conn # null
    tlsConn,    \* tlsConn # null
    reader,     \* "null", or the handle the reader is locked on
    writer,     \* "null", or the handle the writer is locked on
    response,   \* the local buffer of readResponse / readMultiLineResponse
    lastLine,   \* lastLine of readMultiLineResponse
    result,     \* what the call returned or threw
    srv,        \* the peer: "none", "open", "closed" (FIN), "reset" (RST)
    inbox,      \* commands the server received and has not answered yet
    net,        \* chunks in flight from the server to the client
    srvSent,    \* per step, the bytes the server sent in answer to it
    closedOn,   \* the step whose reply was outstanding when the server closed
    written,    \* every write the client issued: step and handle
    staleIO,    \* a read or write was issued on the plain handle after TLS
    handshakes, \* every Deno.startTls call: its place and the handles then set
    closeLog,   \* the handles close() was invoked on
    options,    \* the EmailOptions argument of the call
    clock,      \* what Date.now() and Math.random() yield at line 339
    messageBody,\* messageBody (line 382), "\r\n"-joined; <<>> before
    other,      \* the suspended one of two concurrent calls, if any
    razorpayKeySecret,  \* Deno.env.get('RAZORPAY_KEY_SECRET'), "" if unset
    bill,       \* the bills row the payment handlers read and update
    calls       \* the requests of the two payment handlers, by slot

vars == <<cfg, env, pc, step, conn, tlsConn, reader, writer, response,
          lastLine, result, srv, inbox, net, srvSent, closedOn, written,
          staleIO, handshakes, closeLog, options, clock, messageBody, other,
          razorpayKeySecret, bill, calls>>

payVars == <<razorpayKeySecret, bill, calls>>

mailVars == <<cfg, env, pc, step, conn, tlsConn, reader, writer, response,
              lastLine, result, srv, inbox, net, srvSent, closedOn, written,
              staleIO, handshakes, closeLog, options, clock, messageBody,
              other>>

\* no payment request has arrived
PaymentsIdle ==
    /\ razorpayKeySecret = KeySecret
    /\ bill = UnpaidBill
    /\ calls = [r \in CallIds |-> IdleCall]

clientVars == <<pc, step, conn, tlsConn, reader, writer, response, lastLine,
                result, written, staleIO, handshakes, closeLog, options,
                messageBody>>

NoResult ==
    [type |-> "none", phase |-> "", raw |-> <<>>, name |-> "", messageId |-> ""]
\* { success: true, messageId: `smtp-${Date.now()}` }
Success ==
    [type |-> "success", phase |-> "", raw |-> <<>>, name |-> "",
     messageId |-> "smtp-now"]
Thrown(phase, raw, name) ==
    [type |-> "throw", phase |-> phase, raw |-> raw, name |-> name,
     messageId |-> ""]

\* values of an environment variable: unset, empty, set
EnvValues == {"undefined", "", "set"}

\* variant: only the user is checked
CredentialsMissingUserOnly(user, password) == user \in {"undefined", ""}

\* !smtpUser || !smtpPassword
CredentialsMissing(user, password) ==
    user \in {"undefined", ""} \/ password \in {"undefined", ""}

\* the initial state for a server that answers only EHLO with several lines
Init ==
    /\ cfg \in [secure : BOOLEAN, user : EnvValues, password : EnvValues]
    /\ env = [multi |-> EhloSteps, chunks |-> MaxChunks, faults |-> Steps]
    /\ pc = "config"
    /\ step = "greet"
    /\ conn = FALSE
    /\ tlsConn = FALSE
    /\ reader = "null"
    /\ writer = "null"
    /\ response = <<>>
    /\ lastLine = <<>>
    /\ result = NoResult
    /\ srv = "none"
    /\ inbox = <<>>
    /\ net = <<>>
    /\ srvSent = [s \in Steps |-> <<>>]
    /\ closedOn = "none"
    /\ written = <<>>
    /\ staleIO = FALSE
    /\ handshakes = <<>>
    /\ closeLog = <<>>
    /\ options \in SessionRequests
    /\ clock \in SessionClocks
    /\ messageBody = <<>>
    /\ other = NoSession
    /\ PaymentsIdle

\* the initial state for a server that also greets with several lines
InitML ==
    /\ cfg \in [secure : BOOLEAN, user : EnvValues, password : EnvValues]
    /\ env = [multi |-> {"greet"} \cup EhloSteps, chunks |-> MaxChunks,
              faults |-> Steps]
    /\ pc = "config"
    /\ step = "greet"
    /\ conn = FALSE
    /\ tlsConn = FALSE
    /\ reader = "null"
    /\ writer = "null"
    /\ response = <<>>
    /\ lastLine = <<>>
    /\ result = NoResult
    /\ srv = "none"
    /\ inbox = <<>>
    /\ net = <<>>
    /\ srvSent = [s \in Steps |-> <<>>]
    /\ closedOn = "none"
    /\ written = <<>>
    /\ staleIO = FALSE
    /\ handshakes = <<>>
    /\ closeLog = <<>>
    /\ options \in SessionRequests
    /\ clock \in SessionClocks
    /\ messageBody = <<>>
    /\ other = NoSession
    /\ PaymentsIdle

\* --------------------------------------------------- control transfers
\* the next position of the send: where, in which exchange, with what result
Goto(p, s) == [pc |-> p, step |-> s, result |-> NoResult]

\* variant: an error leaves the function without the finally block
ThrowPastFinally(phase, raw, name) ==
    [pc |-> "done", step |-> step, result |-> Thrown(phase, raw, name)]

\* throw inside the try block: the catch wraps the error and rethrows it,
\* then the finally block runs
Throw(phase, raw, name) ==
    [pc |-> "finally", step |-> step, result |-> Thrown(phase, raw, name)]

\* return { success: true, messageId }, then the finally block runs
Return == [pc |-> "finally", step |-> step, result |-> Success]

Jump(c) == pc' = c.pc /\ step' = c.step /\ result' = c.result

\* ------------------------------------------------ checks of the responses
\* variant: the STARTTLS response is not checked
StartTlsOkUnchecked(r) == TRUE

\* !startTlsResponse.startsWith('220') is the failure
StartTlsOk(r) == StartsWith(r, C220)

\* variant: the password response is compared with the wrong code
AuthOkWrongCode(r) == StartsWith(r, C250)

\* variant: the password response is not checked
AuthOkUnchecked(r) == TRUE

\* !authResponse.startsWith('235') is the failure
AuthOk(r) == StartsWith(r, C235)

\* variant: only a 5xx response to DATA is refused
DataInitOkNot5xx(r) == ~StartsWith(r, <<"5">>)

\* !dataInitResponse.startsWith('354') is the failure
DataInitOk(r) == StartsWith(r, C354)

\* variant: any 2xx response to the message body is accepted
DataAccepted2xx(r) == StartsWith(r, <<"2">>)

\* !dataResponse.startsWith('250') is the failure
DataAccepted(r) == StartsWith(r, C250)

\* error names for which readResponse returns instead of rethrowing
ReadErrorTolerated(name) == name \in {"UnexpectedEof", "BadResource"}

\* error names the catch around the message body treats as success
DataErrorTolerated(name) == name = "UnexpectedEof"

\* variant: errors other than UnexpectedEof and BadResource are rethrown
QuitErrorFatalUnlessEof(name) == name \notin {"UnexpectedEof", "BadResource"}

\* errors of the QUIT exchange that end the send with an error: none, both
\* catch blocks only log
QuitErrorFatal(name) == FALSE

\* the code that follows "await readResponse()" / "await sendCommand()"
AfterResponse(s, r) ==
    CASE s = "greet"    -> Goto("write", "ehlo")
      [] s = "starttls" -> IF StartTlsOk(r) THEN Goto("upgrade", "starttls")
                           ELSE Throw("STARTTLS failed", r, "Error")
      [] s = "auth"     -> Goto("write", "user")
      [] s = "user"     -> Goto("write", "pass")
      [] s = "pass"     -> IF AuthOk(r) THEN Goto("write", "mail")
                           ELSE Throw("Authentication failed", r, "Error")
      [] s = "mail"     -> Goto("write", "rcpt")
      [] s = "rcpt"     -> Goto("write", "data")
      [] s = "data"     -> IF DataInitOk(r) THEN Goto("write", "body")
                           ELSE Throw("DATA command failed", r, "Error")
      [] s = "body"     -> IF DataAccepted(r) THEN Goto("write", "quit")
                           ELSE Throw("Email sending failed", r, "Error")
      [] s = "quit"     -> Return
      [] OTHER          -> Throw("", r, "Error")

\* variant: STARTTLS is never issued
AfterMultiLineNoStartTls(s) == Goto("write", "auth")

\* variant: STARTTLS is issued after every EHLO of a STARTTLS session
AfterMultiLineReissue(s) ==
    IF ~cfg.secure THEN Goto("write", "starttls") ELSE Goto("write", "auth")

\* the code that follows "await readMultiLineResponse()"
AfterMultiLine(s) ==
    IF s = "ehlo" /\ ~cfg.secure THEN Goto("write", "starttls")
    ELSE Goto("write", "auth")

\* an error named name escapes reader.read() or writer.write() in exchange s
AfterError(s, name) ==
    CASE s = "body" -> IF DataErrorTolerated(name) THEN Goto("write", "quit")
                       ELSE Throw("", <<>>, name)
      [] s = "quit" -> IF QuitErrorFatal(name) THEN Throw("", <<>>, name)
                       ELSE Return
      [] OTHER      -> Throw("", <<>>, name)

\* ------------------------------------------------------ client actions
\* lines 328-336: read the configuration; missing credentials throw before
\* the try block, so neither catch nor finally runs
CheckConfig ==
    /\ pc = "config"
    /\ IF CredentialsMissing(cfg.user, cfg.password)
       THEN /\ pc' = "done"
            /\ result' = Thrown("SMTP credentials not configured", <<>>, "Error")
       ELSE /\ pc' = "compose"
            /\ result' = result
    /\ UNCHANGED <<cfg, env, step, conn, tlsConn, reader, writer, response,
                   lastLine, srv, inbox, net, srvSent, closedOn, written,
                   staleIO, closeLog>>
    /\ UNCHANGED <<handshakes, options, clock, messageBody, other, razorpayKeySecret, bill, calls>>

\* lines 338-382: the boundary and the MIME message are built
ComposeMessage ==
    /\ pc = "compose"
    /\ messageBody' = Join(Compose(options, Boundary(clock)), CRLF)
    /\ pc' = "connect"
    /\ UNCHANGED <<cfg, env, step, conn, tlsConn, reader, writer, response,
                   lastLine, result, srv, inbox, net, srvSent, closedOn,
                   written, staleIO, handshakes, closeLog, options, clock,
                   other, razorpayKeySecret, bill, calls>>

\* lines 391-406: Deno.connect; in STARTTLS mode the reader and the writer
\* are taken from the plain connection and the greeting is awaited
Connect ==
    /\ pc = "connect"
    /\ \/ /\ conn' = TRUE
          /\ srv' = "open"
          /\ IF cfg.secure
             THEN /\ Jump(Goto("startTls", "greet"))
                  /\ UNCHANGED <<reader, writer, inbox>>
             ELSE /\ Jump(Goto("read", "greet"))
                  /\ reader' = "plain"
                  /\ writer' = "plain"
                  /\ inbox' = <<"greet">>
       \/ /\ Jump(Throw("", <<>>, "ConnectionRefused"))
          /\ UNCHANGED <<conn, srv, reader, writer, inbox>>
    /\ response' = <<>>
    /\ UNCHANGED <<cfg, env, tlsConn, lastLine, net, srvSent, closedOn,
                   written, staleIO, closeLog>>
    /\ UNCHANGED <<handshakes, options, clock, messageBody, other, razorpayKeySecret, bill, calls>>

\* variant: with secure=true the reader and the writer are taken from conn
HandleAfterConnectPlain == "plain"

\* lines 399-400: with secure=true the reader and the writer are taken from
\* tlsConn
HandleAfterConnect == "tls"

\* Deno.startTls succeeds only on a live connection with no stray plaintext
HandshakePossible == srv = "open" /\ net = <<>>

\* lines 397-401: implicit TLS right after connect
StartTlsImplicit ==
    /\ pc = "startTls"
    /\ handshakes' = Append(handshakes, [at |-> "connect", tls |-> tlsConn,
                                         plain |-> conn])
    /\ \/ /\ HandshakePossible
          /\ tlsConn' = TRUE
          /\ reader' = HandleAfterConnect
          /\ writer' = HandleAfterConnect
          /\ inbox' = <<"greet">>
          /\ Jump(Goto("read", "greet"))
       \/ /\ Jump(Throw("", <<>>, "InvalidData"))
          /\ UNCHANGED <<tlsConn, reader, writer, inbox>>
    /\ response' = <<>>
    /\ UNCHANGED <<cfg, env, conn, lastLine, srv, net, srvSent, closedOn,
                   written, staleIO, closeLog>>
    /\ UNCHANGED <<options, clock, messageBody, other, razorpayKeySecret, bill, calls>>

\* variant: the reader and the writer stay on the plain connection
HandleAfterUpgradeStale == "plain"

\* lines 531-532: the reader and the writer are taken from tlsConn
HandleAfterUpgrade == "tls"

\* lines 521-532: release the plain reader and writer, Deno.startTls, take
\* the reader and the writer of the TLS connection
UpgradeToTls ==
    /\ pc = "upgrade"
    /\ handshakes' = Append(handshakes, [at |-> "starttls", tls |-> tlsConn,
                                         plain |-> conn])
    /\ \/ /\ HandshakePossible
          /\ tlsConn' = TRUE
          /\ reader' = HandleAfterUpgrade
          /\ writer' = HandleAfterUpgrade
          /\ Jump(Goto("write", "ehlo2"))
       \/ /\ reader' = "null"
          /\ writer' = "null"
          /\ tlsConn' = tlsConn
          /\ Jump(Throw("", <<>>, "InvalidData"))
    /\ UNCHANGED <<cfg, env, conn, response, lastLine, srv, inbox, net,
                   srvSent, closedOn, written, staleIO, closeLog>>
    /\ UNCHANGED <<options, clock, messageBody, other, razorpayKeySecret, bill, calls>>

\* the value of SMTP_USER when it is set ("m@x"), as text and as the code
\* units btoa encodes, and the code units of SMTP_PASSWORD ("pw")
SmtpUserText == "m@x"
SmtpUserBytes == <<109, 64, 120>>
SmtpPasswordBytes == <<112, 119>>

\* SMTP_HOST || 'smtp.gmail.com'
SmtpHost == "smtp.gmail.com"

\* line 550: `MAIL FROM:<${smtpUser}>`
MailFrom(o) == <<"MAIL FROM:<", SmtpUserText, ">">>

\* line 553: `RCPT TO:<${options.to}>`
RcptTo(o) == <<"RCPT TO:<", o.to, ">">>

\* the command text of exchange s (lines 510-587)
Command(s) ==
    CASE s \in EhloSteps -> <<"EHLO ", SmtpHost>>
      [] s = "starttls" -> <<"STARTTLS">>
      [] s = "auth"     -> <<"AUTH LOGIN">>
      [] s = "user"     -> Base64(SmtpUserBytes)
      [] s = "pass"     -> Base64(SmtpPasswordBytes)
      [] s = "mail"     -> MailFrom(options)
      [] s = "rcpt"     -> RcptTo(options)
      [] s = "data"     -> <<"DATA">>
      [] OTHER          -> <<"QUIT">>

\* the end-of-data sequence '\r\n.\r\n'
EndOfData == <<CR, LF, ".", CR, LF>>

\* what writer.write is given in exchange s: command + '\r\n', or
\* messageBody + '\r\n.\r\n' (line 565)
Payload(s) ==
    IF s = "body" THEN messageBody \o EndOfData ELSE Command(s) \o CRLF

\* outcomes of writer.write: on a live connection the server receives the
\* command; after a FIN the write is lost or fails; after a RST it fails.
\* (UnexpectedEof is an error of the reading side.)
WriteOutcomes ==
    CASE srv = "open"   -> {"ok"}
      [] srv = "closed" -> {"lost", "BrokenPipe"}
      [] OTHER          -> {"ConnectionReset"}

\* lines 458-462 sendCommand, 510, 515, 535, 565, 587: writer.write of the
\* command (or the message body) of the current exchange
WriteCommand ==
    /\ pc = "write"
    /\ staleIO' = (staleIO \/ (tlsConn /\ writer = "plain"))
    /\ \E o \in WriteOutcomes :
         /\ written' = Append(written, [step |-> step, via |-> writer,
                                        ok |-> o \in {"ok", "lost"},
                                        data |-> Payload(step)])
         /\ inbox' = IF o = "ok" THEN Append(inbox, step) ELSE inbox
         /\ IF o \in {"ok", "lost"}
            THEN Jump(Goto(IF step \in EhloSteps THEN "multiread" ELSE "read",
                           step))
            ELSE Jump(AfterError(step, o))
    /\ response' = <<>>
    /\ lastLine' = <<>>
    /\ UNCHANGED <<cfg, env, conn, tlsConn, reader, writer, srv, net,
                   srvSent, closedOn, closeLog>>
    /\ UNCHANGED <<handshakes, options, clock, messageBody, other, razorpayKeySecret, bill, calls>>

\* what reader.read() can yield now: a chunk, end of stream, or an error.
\* An unclean close of a TLS stream surfaces as UnexpectedEof.
ReadEvents ==
    IF net # <<>> THEN {"chunk"}
    ELSE CASE srv = "closed" -> IF reader = "tls"
                                THEN {"done", "UnexpectedEof"} ELSE {"done"}
           [] srv = "reset"  -> {"ConnectionReset"}
           [] OTHER          -> {}

\* lines 409-452: one iteration of the loop of readResponse
ReadResponse ==
    /\ pc = "read"
    /\ staleIO' = (staleIO \/ (tlsConn /\ reader = "plain"))
    /\ \E ev \in ReadEvents :
         CASE ev = "chunk" ->
                LET buf == response \o Head(net) IN
                /\ net' = Tail(net)
                /\ IF HasLine(buf)
                   THEN /\ Jump(AfterResponse(step,
                                   OrElse(Trim(FirstLine(buf)), Trim(buf))))
                        /\ response' = <<>>
                   ELSE /\ response' = buf
                        /\ UNCHANGED <<pc, step, result>>
           [] ev = "done" ->
                /\ Jump(AfterResponse(step, OrElse(Trim(response), OK250)))
                /\ response' = <<>>
                /\ net' = net
           [] OTHER ->
                /\ IF ReadErrorTolerated(ev)
                   THEN Jump(AfterResponse(step, OrElse(Trim(response), OK250)))
                   ELSE Jump(AfterError(step, ev))
                /\ response' = <<>>
                /\ net' = net
    /\ UNCHANGED <<cfg, env, conn, tlsConn, reader, writer, lastLine, srv,
                   inbox, srvSent, closedOn, written, closeLog>>
    /\ UNCHANGED <<handshakes, options, clock, messageBody, other, razorpayKeySecret, bill, calls>>

\* lines 465-503: one iteration of the loop of readMultiLineResponse
ReadMultiLineResponse ==
    /\ pc = "multiread"
    /\ staleIO' = (staleIO \/ (tlsConn /\ reader = "plain"))
    /\ \E ev \in ReadEvents :
         CASE ev = "chunk" ->
                LET buf == response \o Head(net) IN
                /\ net' = Tail(net)
                /\ IF HasLine(buf)
                   THEN /\ lastLine' = LastCompleteLine(buf)
                        /\ IF IsFinalLine(LastCompleteLine(buf))
                           THEN /\ Jump(AfterMultiLine(step))
                                /\ response' = <<>>
                           ELSE /\ response' = LastFragment(buf)
                                /\ UNCHANGED <<pc, step, result>>
                   ELSE /\ response' = buf
                        /\ UNCHANGED <<pc, step, result, lastLine>>
           [] ev = "done" ->
                /\ Jump(AfterMultiLine(step))
                /\ response' = <<>>
                /\ UNCHANGED <<net, lastLine>>
           [] OTHER ->
                /\ IF ReadErrorTolerated(ev)
                   THEN Jump(AfterMultiLine(step))
                   ELSE Jump(AfterError(step, ev))
                /\ response' = <<>>
                /\ UNCHANGED <<net, lastLine>>
    /\ UNCHANGED <<cfg, env, conn, tlsConn, reader, writer, srv, inbox,
                   srvSent, closedOn, written, closeLog>>
    /\ UNCHANGED <<handshakes, options, clock, messageBody, other, razorpayKeySecret, bill, calls>>

\* variant: the plain handle is not closed when no TLS handle exists
CloseTargetsTlsOnly(tls, plain) == IF tls THEN <<"tls">> ELSE <<>>

\* lines 643-669: the handles the finally block invokes close() on (the rid
\* of a Deno connection is a number for as long as the object exists)
CloseTargets(tls, plain) ==
    IF tls THEN <<"tls">> ELSE IF plain THEN <<"plain">> ELSE <<>>

\* lines 609-670: the finally block
Finally ==
    /\ pc = "finally"
    /\ closeLog' = closeLog \o CloseTargets(tlsConn, conn)
    /\ pc' = "done"
    /\ UNCHANGED <<cfg, env, step, conn, tlsConn, reader, writer, response,
                   lastLine, result, srv, inbox, net, srvSent, closedOn,
                   written, staleIO>>
    /\ UNCHANGED <<handshakes, options, clock, messageBody, other, razorpayKeySecret, bill, calls>>

\* ------------------------------------------------------ server actions
\* the server answers the oldest unanswered command with a complete reply
ServerReply ==
    /\ srv = "open"
    /\ inbox # <<>>
    /\ LET s == Head(inbox) IN
       \E code \in Codes(s),
          n \in 1..(IF s \in env.multi THEN MaxLines ELSE 1) :
         \E chunks \in Chunkings(Reply(code, n), env.chunks) :
            /\ net' = net \o chunks
            /\ srvSent' = [srvSent EXCEPT ![s] = Reply(code, n)]
    /\ inbox' = Tail(inbox)
    /\ UNCHANGED <<cfg, env, srv, closedOn>>
    /\ UNCHANGED clientVars
    /\ UNCHANGED <<clock, other, razorpayKeySecret, bill, calls>>

\* the server sends only the beginning of its reply line, then closes
ServerTruncate ==
    /\ srv = "open"
    /\ step \in env.faults
    /\ inbox # <<>>
    /\ LET s == Head(inbox) IN
       \E code \in Codes(s), k \in 1..4 :
            /\ net' = Append(net, SubSeq(ReplyLine(code, " "), 1, k))
            /\ srvSent' = [srvSent EXCEPT
                             ![s] = SubSeq(ReplyLine(code, " "), 1, k)]
    /\ inbox' = Tail(inbox)
    /\ srv' = "closed"
    /\ closedOn' = Head(inbox)
    /\ UNCHANGED <<cfg, env>>
    /\ UNCHANGED clientVars
    /\ UNCHANGED <<clock, other, razorpayKeySecret, bill, calls>>

\* the server closes the connection (FIN): data in flight is still read
ServerClose ==
    /\ srv = "open"
    /\ step \in env.faults
    /\ pc # "done"
    /\ srv' = "closed"
    /\ closedOn' = IF inbox # <<>> THEN Head(inbox) ELSE "idle"
    /\ UNCHANGED <<cfg, env, inbox, net, srvSent>>
    /\ UNCHANGED clientVars
    /\ UNCHANGED <<clock, other, razorpayKeySecret, bill, calls>>

\* the connection is reset (RST): data in flight is lost
ServerReset ==
    /\ srv = "open"
    /\ step \in env.faults
    /\ pc # "done"
    /\ srv' = "reset"
    /\ net' = <<>>
    /\ UNCHANGED <<cfg, env, inbox, srvSent, closedOn>>
    /\ UNCHANGED clientVars
    /\ UNCHANGED <<clock, other, razorpayKeySecret, bill, calls>>

\* ------------------------------------------------- two concurrent calls
\* what belongs to the running call: its locals (lines 384-387, the buffers
\* of readResponse and readMultiLineResponse, its argument and its message)
\* and its connection to its server
SessionState ==
    [pc |-> pc, step |-> step, conn |-> conn, tlsConn |-> tlsConn,
     reader |-> reader, writer |-> writer, response |-> response,
     lastLine |-> lastLine, result |-> result, written |-> written,
     staleIO |-> staleIO, handshakes |-> handshakes, closeLog |-> closeLog,
     options |-> options, messageBody |-> messageBody, srv |-> srv,
     inbox |-> inbox, net |-> net, srvSent |-> srvSent,
     closedOn |-> closedOn]

\* the state of a call that has not started
FreshSession(o) ==
    [pc |-> "config", step |-> "greet", conn |-> FALSE, tlsConn |-> FALSE,
     reader |-> "null", writer |-> "null", response |-> <<>>,
     lastLine |-> <<>>, result |-> NoResult, written |-> <<>>,
     staleIO |-> FALSE, handshakes |-> <<>>, closeLog |-> <<>>,
     options |-> o, messageBody |-> <<>>, srv |-> "none",
     inbox |-> <<>>, net |-> <<>>, srvSent |-> [s \in Steps |-> <<>>],
     closedOn |-> "none"]

\* variant: conn, tlsConn, reader and writer are module-level variables
ResumeShared(current, saved) == current

\* lines 384-387: conn, tlsConn, reader and writer are declared inside the
\* function, so a call that resumes finds the values it assigned itself
Resume(current, saved) == saved

\* the event loop suspends the running call at an await and resumes the other
Switch ==
    /\ other.pc # "none"
    /\ other' = SessionState
    /\ conn' = Resume(conn, other.conn)
    /\ tlsConn' = Resume(tlsConn, other.tlsConn)
    /\ reader' = Resume(reader, other.reader)
    /\ writer' = Resume(writer, other.writer)
    /\ pc' = other.pc
    /\ step' = other.step
    /\ response' = other.response
    /\ lastLine' = other.lastLine
    /\ result' = other.result
    /\ written' = other.written
    /\ staleIO' = other.staleIO
    /\ handshakes' = other.handshakes
    /\ closeLog' = other.closeLog
    /\ options' = other.options
    /\ messageBody' = other.messageBody
    /\ srv' = other.srv
    /\ inbox' = other.inbox
    /\ net' = other.net
    /\ srvSent' = other.srvSent
    /\ closedOn' = other.closedOn
    /\ UNCHANGED <<cfg, env, clock, razorpayKeySecret, bill, calls>>

Next ==
    \/ CheckConfig
    \/ ComposeMessage
    \/ Connect
    \/ StartTlsImplicit
    \/ UpgradeToTls
    \/ WriteCommand
    \/ ReadResponse
    \/ ReadMultiLineResponse
    \/ Finally
    \/ ServerReply
    \/ ServerTruncate
    \/ ServerClose
    \/ ServerReset

Spec == Init /\ [][Next]_vars

\* every socket operation of the call completes
ClientStep ==
    \/ CheckConfig
    \/ ComposeMessage
    \/ Connect
    \/ StartTlsImplicit
    \/ UpgradeToTls
    \/ WriteCommand
    \/ ReadResponse
    \/ ReadMultiLineResponse
    \/ Finally

\* the server does not stay silent: it sends a complete reply or closes
ServerStep ==
    \/ ServerReply
    \/ ServerClose

\* the send with operations that complete and a server that does not stay
\* silent for ever
SpecLive == Spec /\ WF_vars(ClientStep) /\ WF_vars(ServerStep)

\* the same send against a server whose greeting may have several lines
SpecML == InitML /\ [][Next]_vars

\* the call up to the composed message, for every request
InitCompose ==
    /\ cfg \in [secure : {FALSE}, user : {"set"}, password : {"set"}]
    /\ env = [multi |-> EhloSteps, chunks |-> MaxChunks, faults |-> Steps]
    /\ pc = "config"
    /\ step = "greet"
    /\ conn = FALSE
    /\ tlsConn = FALSE
    /\ reader = "null"
    /\ writer = "null"
    /\ response = <<>>
    /\ lastLine = <<>>
    /\ result = NoResult
    /\ srv = "none"
    /\ inbox = <<>>
    /\ net = <<>>
    /\ srvSent = [s \in Steps |-> <<>>]
    /\ closedOn = "none"
    /\ written = <<>>
    /\ staleIO = FALSE
    /\ handshakes = <<>>
    /\ closeLog = <<>>
    /\ options \in Requests
    /\ clock \in Clocks
    /\ messageBody = <<>>
    /\ other = NoSession
    /\ PaymentsIdle

NextCompose ==
    \/ CheckConfig
    \/ ComposeMessage

SpecCompose == InitCompose /\ [][NextCompose]_vars

\* the send for every HTML body, with and without an attachment, against a
\* server that may fail while the message body is in transit
InitWire ==
    /\ cfg \in [secure : BOOLEAN, user : {"set"}, password : {"set"}]
    /\ env = [multi |-> EhloSteps, chunks |-> MaxChunks, faults |-> {"body"}]
    /\ pc = "config"
    /\ step = "greet"
    /\ conn = FALSE
    /\ tlsConn = FALSE
    /\ reader = "null"
    /\ writer = "null"
    /\ response = <<>>
    /\ lastLine = <<>>
    /\ result = NoResult
    /\ srv = "none"
    /\ inbox = <<>>
    /\ net = <<>>
    /\ srvSent = [s \in Steps |-> <<>>]
    /\ closedOn = "none"
    /\ written = <<>>
    /\ staleIO = FALSE
    /\ handshakes = <<>>
    /\ closeLog = <<>>
    /\ options \in WireRequests
    /\ clock \in SessionClocks
    /\ messageBody = <<>>
    /\ other = NoSession
    /\ PaymentsIdle

SpecWire == InitWire /\ [][Next]_vars

\* two calls in one event loop, each with its own server: single-line
\* replies in one chunk, server failures during the greeting
InitPair ==
    /\ cfg \in [secure : BOOLEAN, user : {"set"}, password : {"set"}]
    /\ env = [multi |-> {}, chunks |-> 1, faults |-> PairFaults]
    /\ pc = "config"
    /\ step = "greet"
    /\ conn = FALSE
    /\ tlsConn = FALSE
    /\ reader = "null"
    /\ writer = "null"
    /\ response = <<>>
    /\ lastLine = <<>>
    /\ result = NoResult
    /\ srv = "none"
    /\ inbox = <<>>
    /\ net = <<>>
    /\ srvSent = [s \in Steps |-> <<>>]
    /\ closedOn = "none"
    /\ written = <<>>
    /\ staleIO = FALSE
    /\ handshakes = <<>>
    /\ closeLog = <<>>
    /\ options \in SessionRequests
    /\ clock \in SessionClocks
    /\ messageBody = <<>>
    /\ \E o \in SessionRequests : other = FreshSession(o)
    /\ PaymentsIdle

NextPair ==
    \/ Next
    \/ Switch

SpecPair == InitPair /\ [][NextPair]_vars

\* --------------------------------------------- the two payment handlers
\* a handler's call moves on; the other calls and the mail session stay
Step(r, call) ==
    /\ calls' = [calls EXCEPT ![r] = call]
    /\ UNCHANGED <<razorpayKeySecret, mailVars>>

\* the handler answers: return new Response(...)
Answer(call, status, message) ==
    [call EXCEPT !.pc = "done", !.response = Respond(status, message)]

\* variant: any signature passes
SignatureOkUnchecked(key, text, signature) == TRUE
\* generatedSignature !== signature, webhookSignature !== expectedSignature
SignatureOk(key, text, signature) == Hmac(key, text) = signature

\* .from('bills').select(...).eq('id', billId).single(): the row, if any
BillById(billId) == IF billId = bill.id THEN {bill} ELSE {}

\* the condition under which a handler answers without updating
AlreadyPaid(rows, paymentId) ==
    \E b \in rows : b.paid /\ b.razorpay_payment_id = paymentId

\* .update({paid: true, status: 'paid', razorpay_payment_id: paymentId})
MarkPaid(b, paymentId) ==
    [b EXCEPT !.paid = TRUE, !.razorpay_payment_id = paymentId]

\* variant: a failed invoice e-mail fails the request
AfterInvoiceRethrowing(call, outcome, message) ==
    IF outcome \in {"pdf failed", "smtp failed"}
    THEN Answer([call EXCEPT !.invoice = outcome], 400, outcome)
    ELSE Answer([call EXCEPT !.invoice = outcome], 200, message)
\* the try/catch around the invoice e-mail, then the handler's last return
AfterInvoice(call, outcome, message) ==
    Answer([call EXCEPT !.invoice = outcome], 200, message)

\* razorpay-verify-payment up to its request to the payment gateway
VerifyReceive(r) ==
    /\ calls[r].pc = "idle"
    /\ \A q \in CallIds : q < r => calls[q].pc # "idle"
    /\ \E billId \in BillIds, paymentId \in PaymentIds, orderId \in OrderIds :
         \E signature \in VerifySignatures(orderId, paymentId) :
           \E call \in {[calls[r] EXCEPT !.kind = "verify", !.billId = billId,
                                         !.paymentId = paymentId,
                                         !.orderId = orderId,
                                         !.signature = signature]} :
             /\ bill' = bill
             /\ IF razorpayKeySecret = ""
                THEN Step(r, Answer(call, 400,
                                    "Razorpay credentials not configured"))
                ELSE IF ~SignatureOk(razorpayKeySecret,
                                     SignedText(orderId, paymentId), signature)
                THEN Step(r, Answer(call, 400, "Invalid payment signature"))
                ELSE Step(r, [call EXCEPT !.pc = "gateway"])

\* the gateway's answer about the payment
VerifyFetchPayment(r) ==
    /\ calls[r].kind = "verify"
    /\ calls[r].pc = "gateway"
    /\ bill' = bill
    /\ \E answer \in GatewayAnswers :
         IF answer = "not ok"
         THEN Step(r, Answer(calls[r], 400, "Payment verification failed"))
         ELSE IF ~StatusSuccessful(answer)
         THEN Step(r, Answer([calls[r] EXCEPT !.status = answer], 400,
                             "Payment not successful"))
         ELSE Step(r, [calls[r] EXCEPT !.status = answer, !.pc = "select"])

\* the idempotency check of razorpay-verify-payment
VerifySelectBill(r) ==
    /\ calls[r].kind = "verify"
    /\ calls[r].pc = "select"
    /\ bill' = bill
    /\ \E rows \in {BillById(calls[r].billId), {}} :
         IF rows = {}
         THEN Step(r, Answer(calls[r], 400, "Bill not found"))
         ELSE IF AlreadyPaid(rows, calls[r].paymentId)
         THEN Step(r, Answer(calls[r], 200, "Bill already paid"))
         ELSE Step(r, [calls[r] EXCEPT !.pc = "update"])

\* the update of razorpay-verify-payment
VerifyUpdateBill(r) ==
    /\ calls[r].kind = "verify"
    /\ calls[r].pc = "update"
    /\ \E rows \in {BillById(calls[r].billId), {}} :
         IF rows = {}
         THEN /\ bill' = bill
              /\ Step(r, Answer(calls[r], 400, "Failed to update bill"))
         ELSE /\ bill' = MarkPaid(bill, calls[r].paymentId)
              /\ Step(r, [calls[r] EXCEPT !.updated = TRUE, !.pc = "invoice"])

\* the invoice e-mail of razorpay-verify-payment and its answer
VerifySendInvoice(r) ==
    /\ calls[r].kind = "verify"
    /\ calls[r].pc = "invoice"
    /\ bill' = bill
    /\ \E outcome \in InvoiceOutcomes :
         Step(r, AfterInvoice(calls[r], outcome, "success"))

\* the webhook up to its first query
WebhookReceive(r) ==
    /\ calls[r].pc = "idle"
    /\ \A q \in CallIds : q < r => calls[q].pc # "idle"
    /\ \E body \in WebhookBodies :
         \E signature \in WebhookSignatures(body) :
           \E call \in {[calls[r] EXCEPT !.kind = "webhook", !.body = body,
                                         !.signature = signature,
                                         !.paymentId = body.id,
                                         !.status = body.status]} :
             /\ bill' = bill
             /\ IF razorpayKeySecret = ""
                THEN Step(r, Answer(call, 400,
                                    "Razorpay credentials not configured"))
                ELSE IF signature = NoHeader
                THEN Step(r, Answer(call, 400, "Missing webhook signature"))
                ELSE IF ~SignatureOk(razorpayKeySecret, body, signature)
                THEN Step(r, Answer(call, 401, "Invalid signature"))
                ELSE IF body.event = ""
                THEN Step(r, Answer(call, 400, "Invalid webhook payload"))
                ELSE IF body.event \notin {"payment.captured",
                                           "payment.authorized"}
                THEN Step(r, Answer(call, 200, "received"))
                ELSE IF body.bill_id # ""
                THEN Step(r, [call EXCEPT !.billId = body.bill_id,
                                          !.pc = "select"])
                ELSE Step(r, [call EXCEPT !.pc = "byPaymentId"])

\* the webhook looks for the bill by razorpay_payment_id
WebhookFindByPaymentId(r) ==
    /\ calls[r].kind = "webhook"
    /\ calls[r].pc = "byPaymentId"
    /\ bill' = bill
    /\ IF bill.razorpay_payment_id = calls[r].paymentId
       THEN Step(r, [calls[r] EXCEPT !.billId = bill.id, !.pc = "select"])
       ELSE Step(r, [calls[r] EXCEPT !.pc = "byAmount"])

\* the webhook looks for an unpaid bill of a matching amount
WebhookFindByAmount(r) ==
    /\ calls[r].kind = "webhook"
    /\ calls[r].pc = "byAmount"
    /\ bill' = bill
    /\ IF ~bill.paid /\ calls[r].body.amountMatches
       THEN Step(r, [calls[r] EXCEPT !.billId = bill.id, !.pc = "select"])
       ELSE Step(r, Answer(calls[r], 200, "Bill not found"))

\* the idempotency check of the webhook, and its test of payment.status
WebhookSelectBill(r) ==
    /\ calls[r].kind = "webhook"
    /\ calls[r].pc = "select"
    /\ bill' = bill
    /\ \E rows \in {BillById(calls[r].billId), {}} :
         IF AlreadyPaid(rows, calls[r].paymentId)
         THEN Step(r, Answer(calls[r], 200, "Bill already paid"))
         ELSE IF StatusSuccessful(calls[r].status)
         THEN Step(r, [calls[r] EXCEPT !.pc = "update"])
         ELSE Step(r, Answer(calls[r], 200, "received"))

\* the update of the webhook
WebhookUpdateBill(r) ==
    /\ calls[r].kind = "webhook"
    /\ calls[r].pc = "update"
    /\ \E rows \in {BillById(calls[r].billId), {}} :
         IF rows = {}
         THEN /\ bill' = bill
              /\ Step(r, Answer(calls[r], 400, "Failed to update bill"))
         ELSE /\ bill' = MarkPaid(bill, calls[r].paymentId)
              /\ Step(r, [calls[r] EXCEPT !.updated = TRUE, !.pc = "invoice"])

\* the invoice e-mail of the webhook and its answer
WebhookSendInvoice(r) ==
    /\ calls[r].kind = "webhook"
    /\ calls[r].pc = "invoice"
    /\ bill' = bill
    /\ \E outcome \in InvoiceOutcomes :
         Step(r, AfterInvoice(calls[r], outcome, "received"))

\* the payment handlers alone: no mail session is modelled beside them
InitPay ==
    /\ cfg = [secure |-> FALSE, user |-> "set", password |-> "set"]
    /\ env = [multi |-> EhloSteps, chunks |-> MaxChunks, faults |-> Steps]
    /\ pc = "config"
    /\ step = "greet"
    /\ conn = FALSE
    /\ tlsConn = FALSE
    /\ reader = "null"
    /\ writer = "null"
    /\ response = <<>>
    /\ lastLine = <<>>
    /\ result = NoResult
    /\ srv = "none"
    /\ inbox = <<>>
    /\ net = <<>>
    /\ srvSent = [s \in Steps |-> <<>>]
    /\ closedOn = "none"
    /\ written = <<>>
    /\ staleIO = FALSE
    /\ handshakes = <<>>
    /\ closeLog = <<>>
    /\ options \in SessionRequests
    /\ clock \in SessionClocks
    /\ messageBody = <<>>
    /\ other = NoSession
    /\ razorpayKeySecret \in {KeySecret, ""}
    /\ bill = UnpaidBill
    /\ calls = [r \in CallIds |-> IdleCall]

NextPay ==
    \/ \E r \in CallIds : VerifyReceive(r)
    \/ \E r \in CallIds : VerifyFetchPayment(r)
    \/ \E r \in CallIds : VerifySelectBill(r)
    \/ \E r \in CallIds : VerifyUpdateBill(r)
    \/ \E r \in CallIds : VerifySendInvoice(r)
    \/ \E r \in CallIds : WebhookReceive(r)
    \/ \E r \in CallIds : WebhookFindByPaymentId(r)
    \/ \E r \in CallIds : WebhookFindByAmount(r)
    \/ \E r \in CallIds : WebhookSelectBill(r)
    \/ \E r \in CallIds : WebhookUpdateBill(r)
    \/ \E r \in CallIds : WebhookSendInvoice(r)

SpecPay == InitPay /\ [][NextPay]_vars

TypeOK ==
    /\ pc \in {"config", "compose", "connect", "startTls", "upgrade", "write", "read",
               "multiread", "finally", "done"}
    /\ step \in Steps
    /\ reader \in {"null", "plain", "tls"}
    /\ writer \in {"null", "plain", "tls"}
    /\ srv \in {"none", "open", "closed", "reset"}
    /\ result.type \in {"none", "success", "throw"}

\* ------------------------------------------------- history predicates
\* the client issued a write for exchange s (it may have failed)
Wrote(s) == \E i \in 1..Len(written) : written[i].step = s

\* the write for exchange s completed without an error
WroteOk(s) == \E i \in 1..Len(written) : written[i].step = s /\ written[i].ok

\* the server answered exchange s with status code, in full
Replied(s, code) == \E n \in 1..(MaxLines + 1) : srvSent[s] = Reply(code, n)

\* the line readResponse makes of the bytes the server sent for exchange s
RawReply(s) == OrElse(Trim(FirstLine(srvSent[s])), Trim(srvSent[s]))

\* the replies of the server of a complete STARTTLS session
HappyCode(s) ==
    CASE s \in {"greet", "starttls"}       -> C220
      [] s \in {"ehlo", "ehlo2", "mail", "rcpt", "body"} -> C250
      [] s \in {"auth", "user"}            -> C334
      [] s = "pass"                        -> C235
      [] s = "data"                        -> C354
      [] OTHER                             -> C221

\* the server of a complete session: it answers every command it receives
\* with the expected status, in full, and closes at the earliest on QUIT
HappyServer ==
    /\ srv # "reset"
    /\ \A s \in Steps : srvSent[s] = <<>> \/ Replied(s, HappyCode(s))
    /\ \/ closedOn \in {"none", "quit"}
       \/ closedOn = "idle" /\ srvSent["quit"] # <<>>

\* ---------------------------------------------------------------- claims

\* C1: against a server that answers 220, 250, 220 (STARTTLS), 250, 334,
\* 334, 235, 250, 250, 354, 250 and closes on QUIT, a send in STARTTLS mode
\* with credentials configured ends by returning success with a messageId.
C1_HappyPathSucceeds ==
    (/\ pc = "done"
     /\ ~cfg.secure
     /\ cfg.user = "set" /\ cfg.password = "set"
     /\ conn /\ tlsConn
     /\ HappyServer)
    => (result.type = "success" /\ result.messageId # "")

C1_Witness ==
    /\ pc = "done"
    /\ ~cfg.secure
    /\ srv = "closed"
    /\ closedOn = "quit"
    /\ \A s \in Steps \ {"quit"} : Replied(s, HappyCode(s))
    /\ result.type = "success"
    /\ result.messageId # ""

\* C2: when the connect succeeded, close is invoked exactly once, as the
\* last step of the send, on the TLS handle if there is one and on the plain
\* handle otherwise; nothing is written or read once close was invoked.
C2_CloseExactlyOnce ==
    /\ [](/\ (closeLog # <<>> => pc = "done")
          /\ (pc = "done" /\ conn =>
                closeLog = <<IF tlsConn THEN "tls" ELSE "plain">>))
    /\ [][closeLog # <<>> =>
            /\ closeLog' = closeLog
            /\ written' = written
            /\ net' = net]_vars

C2_Witness ==
    /\ pc = "done"
    /\ conn
    /\ ~tlsConn
    /\ step = "starttls"
    /\ result.type = "throw"
    /\ result.name = "InvalidData"
    /\ closeLog = <<"plain">>

\* C3: when the server answers the password with a status other than 235,
\* the send throws "Authentication failed" with the server's line, writes no
\* MAIL FROM, RCPT TO, DATA or body, and close is invoked exactly once.
C3_AuthFailureThrows ==
    (/\ pc = "done"
     /\ srv # "reset"
     /\ srvSent["pass"] # <<>>
     /\ ~StartsWith(srvSent["pass"], C235))
    => /\ result.type = "throw"
       /\ result.phase = "Authentication failed"
       /\ result.raw = RawReply("pass")
       /\ \A s \in {"mail", "rcpt", "data", "body", "quit"} : ~Wrote(s)
       /\ Len(closeLog) = 1

C3_Witness ==
    /\ pc = "done"
    /\ Replied("pass", C535)
    /\ result.type = "throw"
    /\ result.phase = "Authentication failed"
    /\ result.raw = C535
    /\ Len(closeLog) = 1

\* the exchanges that precede the writing of the message body
PreBodySteps == Steps \ {"body", "quit"}

\* C4 (as claimed): when the server closes the connection while the reply
\* to an exchange before the message body is outstanding, the send ends
\* with a thrown error and never returns success.
C4_CloseBeforeBodyThrows ==
    (pc = "done" /\ closedOn \in PreBodySteps) => result.type = "throw"

\* C5: with SMTP_USER or SMTP_PASSWORD missing the send throws the
\* configuration error and never connects, reads, writes or closes.
C5_MissingCredentialsNoIO ==
    (cfg.user \in {"undefined", ""} \/ cfg.password \in {"undefined", ""})
    => /\ pc \in {"config", "done"}
       /\ ~conn /\ ~tlsConn /\ srv = "none"
       /\ written = <<>> /\ net = <<>> /\ inbox = <<>> /\ closeLog = <<>>
       /\ (pc = "done" =>
             /\ result.type = "throw"
             /\ result.phase = "SMTP credentials not configured")

C5_Witness ==
    /\ pc = "done"
    /\ cfg.user = "set"
    /\ cfg.password = ""
    /\ result.type = "throw"
    /\ srv = "none"

\* C6 (as claimed): when the greeting does not carry 220 the client writes
\* no EHLO, closes the session and throws an error carrying the greeting.
C6_BadGreetingAborts ==
    (Replied("greet", C554) /\ srv # "reset")
    => /\ ~Wrote("ehlo")
       /\ (pc = "done" =>
             /\ result.type = "throw"
             /\ result.raw = RawReply("greet")
             /\ Len(closeLog) = 1)

\* C7 (as claimed): when the server refuses MAIL FROM or RCPT TO, DATA and
\* the message body are never written and the send throws; it never returns
\* success.
C7_RejectedEnvelopeAborts ==
    ((Replied("mail", C550) \/ Replied("rcpt", C550)) /\ srv # "reset")
    => /\ ~Wrote("data")
       /\ ~Wrote("body")
       /\ (pc = "done" => result.type = "throw")

\* C8: the message body is written only after the server answered DATA with
\* 354; for any other answer to DATA the send throws "DATA command failed"
\* with the server's line and the body is never written.
C8_BodyOnlyAfter354 ==
    /\ (Wrote("body") => StartsWith(srvSent["data"], C354))
    /\ (/\ pc = "done"
        /\ srv # "reset"
        /\ srvSent["data"] # <<>>
        /\ ~StartsWith(srvSent["data"], C354))
       => /\ result.type = "throw"
          /\ result.phase = "DATA command failed"
          /\ result.raw = RawReply("data")
          /\ ~Wrote("body")

C8_Witness ==
    /\ pc = "done"
    /\ Replied("data", C554)
    /\ result.phase = "DATA command failed"
    /\ result.raw = C554
    /\ ~Wrote("body")

\* C9: once the message body has been written, the send returns success
\* exactly when the server's answer begins with 250 or the connection was
\* closed with no answer byte; any other answer makes the send throw.
C9_BodyOutcome ==
    (pc = "done" /\ WroteOk("body") /\ srv # "reset")
    => /\ (result.type = "success") <=>
            \/ StartsWith(srvSent["body"], C250)
            \/ (srvSent["body"] = <<>> /\ srv = "closed")
       /\ result.type \in {"success", "throw"}
       /\ (result.type = "throw" =>
             /\ result.phase = "Email sending failed"
             /\ result.raw = RawReply("body"))

C9_Witness ==
    /\ pc = "done"
    /\ WroteOk("body")
    /\ srvSent["body"] = <<>>
    /\ closedOn = "body"
    /\ result.type = "success"

\* C10: once the client has entered the QUIT exchange (the body was
\* accepted), the send returns success whatever the server does: answer with
\* any status, close without an answer, reset, or make the QUIT write fail.
C10_QuitNeverFails ==
    (pc = "done" /\ Wrote("quit")) => result.type = "success"

C10_Witness ==
    /\ pc = "done"
    /\ Replied("body", C250)
    /\ Wrote("quit")
    /\ ~WroteOk("quit")
    /\ result.type = "success"

\* the steps of the writes issued so far, in order
WrittenSteps == [i \in 1..Len(written) |-> written[i].step]

\* how many writes of exchange s were issued
WriteCount(s) == Cardinality({i \in 1..Len(written) : written[i].step = s})

IsPrefix(a, b) == Len(a) <= Len(b) /\ a = SubSeq(b, 1, Len(a))

\* the response to exchange s has been read to its end: nothing of it is in
\* flight, and on a live connection the server sent it in full
DrainedNow(s) == net = <<>> /\ (srv = "open" => Replied(s, C250))

C12_UpgradeOnlyAfter220 ==
    /\ Len(handshakes) <= 1
    /\ \A i \in 1..Len(handshakes) :
         /\ handshakes[i].plain /\ ~handshakes[i].tls
         /\ handshakes[i].at = (IF cfg.secure THEN "connect" ELSE "starttls")
         /\ handshakes[i].at = "starttls" =>
               StartsWith(srvSent["starttls"], C220)
    /\ (/\ pc = "done"
        /\ srv # "reset"
        /\ srvSent["starttls"] # <<>>
        /\ ~StartsWith(srvSent["starttls"], C220))
       => /\ result.type = "throw"
          /\ result.phase = "STARTTLS failed"
          /\ result.raw = RawReply("starttls")
          /\ handshakes = <<>>
          /\ \A s \in {"ehlo2", "auth", "user", "pass"} : ~Wrote(s)

C12_Witness ==
    /\ pc = "done"
    /\ Replied("starttls", C454)
    /\ result.phase = "STARTTLS failed"
    /\ result.raw = C454
    /\ handshakes = <<>>
    /\ WrittenSteps = <<"ehlo", "starttls">>

\* C13: the reader and the writer are always on the same handle; once the
\* TLS handle exists they are on it, no read or write is issued on the plain
\* handle any more, and the plain handle is never closed next to the TLS one.
C13_OneActiveEndpoint ==
    /\ reader = writer
    /\ tlsConn => (reader = "tls" /\ writer = "tls")
    /\ ~staleIO
    /\ \A i \in 1..Len(written) :
         written[i].via = "plain" =>
            (~cfg.secure /\ written[i].step \in {"ehlo", "starttls"})
    /\ tlsConn => closeLog \in {<<>>, <<"tls">>}

C13_Witness ==
    /\ pc = "done"
    /\ ~cfg.secure
    /\ tlsConn
    /\ WroteOk("body")
    /\ written[2].via = "plain"
    /\ written[3].via = "tls"
    /\ closeLog = <<"tls">>

\* the fixed order of the client's writes
WriteOrder(secure) ==
    IF secure
    THEN <<"ehlo", "auth", "user", "pass", "mail", "rcpt", "data", "body",
           "quit">>
    ELSE <<"ehlo", "starttls", "ehlo2", "auth", "user", "pass", "mail",
           "rcpt", "data", "body", "quit">>

\* C14: the writes of a run are a prefix of EHLO, [STARTTLS, EHLO], AUTH
\* LOGIN, user, password, MAIL FROM, RCPT TO, DATA, body, QUIT: nothing is
\* written out of order or twice, the body at most once.
C14_WritesFollowFixedOrder ==
    /\ IsPrefix(WrittenSteps, WriteOrder(cfg.secure))
    /\ WriteCount("body") <= 1

C14_Witness ==
    /\ pc = "done"
    /\ result.type = "success"
    /\ WrittenSteps = WriteOrder(FALSE)

\* C16: the user name is written only in answer to a 334 to AUTH LOGIN and
\* the password only in answer to a 334 to the user name: after any other
\* reply the run aborts without the next credential write.
C16_CredentialsOnlyAfter334 ==
    /\ Replied("auth", C504) =>
         (~Wrote("user") /\ (pc = "done" => result.type = "throw"))
    /\ Replied("user", C535) =>
         (~Wrote("pass") /\ (pc = "done" => result.type = "throw"))

\* C17: "Authentication failed" is thrown only when the server answered the
\* password, with a reply that does not start with 235, and the error carries
\* that reply; a connection closed during AUTH is not an authentication
\* failure.
C17_AuthFailureOnlyOnReply ==
    (pc = "done" /\ result.type = "throw"
       /\ result.phase = "Authentication failed")
    => /\ srvSent["pass"] # <<>>
       /\ ~StartsWith(srvSent["pass"], C235)
       /\ result.raw = RawReply("pass")

\* C15: the client writes only when nothing of the server's earlier
\* responses is unread, and the reply a check evaluates is the reply to the
\* command of that check.
C15_LockStep ==
    /\ (pc = "write" /\ srv = "open") => (net = <<>> /\ response = <<>>)
    /\ (pc = "done" /\ srv = "open" /\ result.type = "throw"
          /\ result.phase = "STARTTLS failed")
       => result.raw = RawReply("starttls")

\* the index of the first empty line among lines L
FirstEmptyLine(L) == SetMin({i \in 1..Len(L) : L[i] = <<>>})

\* C19: without attachments (list absent or empty) the composed message has
\* no line starting with the boundary delimiter, no header with a boundary
\* parameter, exactly one Content-Type header, the text/html one, and after
\* the first empty line the HTML body, verbatim.
C19_SinglePartWithoutAttachments ==
    (/\ pc = "connect"
     /\ (~options.attachments.defined \/ options.attachments.list = <<>>))
    => \A L \in {SplitLines(messageBody)} :
       /\ \A i \in 1..Len(L) : ~StartsWith(L[i], <<"--">> \o Boundary(clock))
       /\ \E i \in 1..Len(L) : L[i] = <<>>
       /\ \A e \in {FirstEmptyLine(L)} :
            /\ \A i \in 1..(e - 1) :
                 /\ L[i] # <<>>
                 /\ L[i][1] # "Content-Type: multipart/mixed; boundary=\""
                 /\ L[i][1] # "Content-Type: "
            /\ Cardinality({i \in 1..(e - 1) : L[i] = HtmlContentType}) = 1
            /\ Join(SubSeq(L, e + 1, Len(L)), CRLF) = options.html

C19_Witness ==
    /\ pc = "connect"
    /\ options.attachments.defined
    /\ options.attachments.list = <<>>
    /\ options.html = <<"<p>Dear guest</p>", CR, LF, CR, LF, ".">>
    /\ Len(SplitLines(messageBody)) = 10

\* the indices of the opening delimiter lines among lines L
OpeningLines(L) ==
    {i \in 1..Len(L) : L[i] = <<"--">> \o Boundary(clock)}

\* the n-th smallest element of O
NthOf(O, n) == CHOOSE i \in O : Cardinality({j \in O : j < i}) = n - 1

\* C20: with N >= 1 attachments the message announces multipart/mixed with
\* the boundary and has exactly N+1 opening delimiter lines: the first part
\* is text/html, part k+1 carries the content type of attachment k, a
\* Content-Disposition: attachment with its file name and
\* Content-Transfer-Encoding: base64, each followed by an empty line; the
\* closing delimiter occurs exactly once, as the last line.
C20_MultipartStructure ==
    (/\ pc = "connect"
     /\ options.attachments.defined
     /\ Len(options.attachments.list) >= 1)
    => \A L \in {SplitLines(messageBody)} :
       \A O \in {OpeningLines(L)} :
       \A N \in {Len(options.attachments.list)} :
          /\ Cardinality(O) = N + 1
          /\ {i \in 1..Len(L) :
                L[i] = <<"--">> \o Boundary(clock) \o <<"--">>} = {Len(L)}
          /\ \E i \in 1..(NthOf(O, 1) - 1) :
                L[i] = <<"Content-Type: multipart/mixed; boundary=\"">>
                       \o Boundary(clock) \o <<"\"">>
          /\ L[NthOf(O, 1) + 1] = <<"Content-Type: text/html; charset=UTF-8">>
          /\ L[NthOf(O, 1) + 3] = <<>>
          /\ \A k \in 1..N :
               \A a \in {options.attachments.list[k]} :
               \A at \in {NthOf(O, k + 1)} :
                  /\ L[at + 1] = <<"Content-Type: ", a.contentType>>
                  /\ L[at + 2] =
                       <<"Content-Disposition: attachment; filename=\"",
                         a.filename, "\"">>
                  /\ L[at + 3] = <<"Content-Transfer-Encoding: base64">>
                  /\ L[at + 4] = <<>>

C20_Witness ==
    /\ pc = "connect"
    /\ options.attachments.defined
    /\ Len(options.attachments.list) = 2
    /\ options.attachments.list[1].contentType = "image/png"
    /\ options.attachments.list[2].contentType = "application/pdf"
    /\ Len(options.attachments.list[1].content) = 58
    /\ Cardinality(OpeningLines(SplitLines(messageBody))) = 3

\* the handles of call s are the ones it opened itself, on its own server
OwnsItsHandles(s) ==
    /\ s.pc \in {"config", "compose", "connect"} =>
         (/\ ~s.conn /\ ~s.tlsConn
          /\ s.reader = "null" /\ s.writer = "null"
          /\ s.written = <<>>)
    /\ s.conn <=> s.srv # "none"
    /\ s.tlsConn => Len(s.handshakes) = 1
    /\ \A i \in 1..Len(s.handshakes) :
         s.handshakes[i].plain /\ ~s.handshakes[i].tls
    /\ s.pc \in {"read", "multiread", "write"} =>
         (/\ s.reader # "null"
          /\ s.reader = s.writer
          /\ (s.reader = "tls" <=> s.tlsConn))
    /\ ~s.staleIO
    /\ s.closeLog # <<>> => s.pc = "done"
    /\ Len(s.closeLog) <= 1

\* C18: two concurrent calls share no mutable state: under every
\* interleaving each call holds only the handles it opened on its own
\* server, a step of one call (its failure and its close included) leaves
\* the suspended call as it was, and a call whose own server answers every
\* command as expected succeeds whatever happens to the other call.
C18_ConcurrentSendsIndependent ==
    /\ [](OwnsItsHandles(SessionState) /\ OwnsItsHandles(other))
    /\ []((pc = "done" /\ HappyServer /\ conn /\ tlsConn)
            => result.type = "success")
    /\ [][other' # other => (other' = SessionState /\ SessionState' = other)]_vars

C18_Witness ==
    /\ pc = "done"
    /\ HappyServer
    /\ result.type = "success"
    /\ closeLog = <<"tls">>
    /\ other.pc = "done"
    /\ other.srv = "reset"
    /\ other.result.type = "throw"
    /\ other.closeLog # <<>>
    /\ Len(other.written) < Len(written)

\* the value of a base64 character
SextetOf(c) == CHOOSE n \in 0..63 : Base64Alphabet[n + 1] = c

\* atob: the bytes of a base64 text (groups of four characters, "=" padding)
RECURSIVE Base64Decode(_)
Base64Decode(t) ==
    IF Len(t) < 4 THEN <<>>
    ELSE LET a == SextetOf(t[1])
             b == SextetOf(t[2])
         IN IF t[3] = "="
            THEN <<a * 4 + b \div 16>>
            ELSE IF t[4] = "="
            THEN <<a * 4 + b \div 16,
                   (b % 16) * 16 + SextetOf(t[3]) \div 4>>
            ELSE <<a * 4 + b \div 16,
                   (b % 16) * 16 + SextetOf(t[3]) \div 4,
                   (SextetOf(t[3]) % 4) * 64 + SextetOf(t[4])>>
                 \o Base64Decode(SubSeq(t, 5, Len(t)))

\* the base64 lines of the part of attachment k among lines L with opening
\* delimiters O: from the line after the empty line that ends the part's
\* headers to the line before the next delimiter (an opening delimiter is
\* preceded by an empty line, the closing one is not)
PartLines(L, O, k) ==
    SubSeq(L, NthOf(O, k + 1) + 5,
           IF k + 1 < Cardinality(O) THEN NthOf(O, k + 2) - 2 ELSE Len(L) - 1)

\* C21: for every attachment of the request, the base64 lines of its part
\* of the composed message, concatenated without the line breaks and
\* base64-decoded, are the attachment's bytes (sizes 0, 1, 2, 3, 57, 58, 75,
\* 76 and 77).
C21_AttachmentRoundTrip ==
    (/\ pc = "connect"
     /\ options.attachments.defined
     /\ Len(options.attachments.list) >= 1)
    => \A L \in {SplitLines(messageBody)} :
       \A O \in {OpeningLines(L)} :
       \A k \in 1..Len(options.attachments.list) :
          Base64Decode(Join(PartLines(L, O, k), <<>>))
            = options.attachments.list[k].content

C21_Witness ==
    /\ pc = "connect"
    /\ options.attachments.defined
    /\ Len(options.attachments.list) = 2
    /\ Len(options.attachments.list[1].content) = 77
    /\ Len(options.attachments.list[2].content) = 0
    /\ \A L \in {SplitLines(messageBody)} :
         Len(PartLines(L, OpeningLines(L), 1)) = 2

\* C22: the base64 text of every attachment is emitted in lines of exactly
\* 76 characters but for the last, which has 1 to 76 characters (one empty
\* line for an empty attachment); the lines in order are the unwrapped text.
C22_WrappedAt76 ==
    (/\ pc = "connect"
     /\ options.attachments.defined
     /\ Len(options.attachments.list) >= 1)
    => \A L \in {SplitLines(messageBody)} :
       \A O \in {OpeningLines(L)} :
       \A k \in 1..Len(options.attachments.list) :
       \A P \in {PartLines(L, O, k)} :
          /\ Len(P) >= 1
          /\ \A i \in 1..(Len(P) - 1) : Len(P[i]) = 76
          /\ Len(P[Len(P)]) <= 76
          /\ (Len(P[Len(P)]) = 0) =>
                (Len(P) = 1 /\ options.attachments.list[k].content = <<>>)
          /\ Join(P, <<>>) = Base64(options.attachments.list[k].content)

C22_Witness ==
    /\ pc = "connect"
    /\ options.attachments.defined
    /\ Len(options.attachments.list) = 1
    /\ Len(options.attachments.list[1].content) = 58
    /\ \A L \in {SplitLines(messageBody)} :
       \A P \in {PartLines(L, OpeningLines(L), 1)} :
          Len(P) = 2 /\ Len(P[1]) = 76 /\ Len(P[2]) = 4

\* C23: when every socket operation completes and the server does not stay
\* silent for ever, the send ends; it ends by returning {success: true,
\* messageId} or by throwing one error, never with a failure value, and the
\* connection it opened has been closed, once.
C23_EverySendCompletes ==
    /\ <>(pc = "done")
    /\ [](pc = "done" =>
            /\ result.type \in {"success", "throw"}
            /\ result.type = "success" => result.messageId # ""
            /\ conn <=> closeLog # <<>>
            /\ Len(closeLog) <= 1)

C23_Witness ==
    /\ pc = "done"
    /\ result.type = "throw"
    /\ result.name = "ConnectionReset"
    /\ srv = "reset"
    /\ tlsConn
    /\ closeLog = <<"tls">>
    /\ WroteOk("data")

\* C24: on a live connection readMultiLineResponse returns only when the
\* whole EHLO response (continuation lines with "-", then the final line
\* with " "), however it was split across reads, has been received: nothing
\* of it is in flight or left in the buffer, and the line it returned on is
\* the final line, never a continuation line.
C24_EhloResponseDrained ==
    [][(pc = "multiread" /\ pc' # "multiread" /\ srv = "open")
       => /\ Replied(step, C250)
          /\ net' = <<>>
          /\ response' = <<>>
          /\ lastLine' = C250 \o <<" ">>
          /\ pc' = "write"]_vars

C24_Witness ==
    /\ pc = "multiread"
    /\ step = "ehlo2"
    /\ srv = "open"
    /\ srvSent["ehlo2"] = Reply(C250, 2)
    /\ response = C250 \o <<"-", CR>>
    /\ net = <<<<LF>> \o ReplyLine(C250, " ")>>

\* the positions at which the end-of-data sequence starts in b
EndOfDataPos(b) ==
    {i \in 1..(Len(b) - 4) : SubSeq(b, i, i + 4) = <<CR, LF, ".", CR, LF>>}

\* C25: what is written in the DATA phase is the composed message followed
\* by CRLF "." CRLF, and this sequence occurs in it only once, at its end,
\* also when a line of the HTML body is a single dot.
C25_EndOfDataOnlyAtEnd ==
    \A i \in 1..Len(written) :
       written[i].step = "body" =>
          \A d \in {written[i].data} :
             /\ d = messageBody \o <<CR, LF, ".", CR, LF>>
             /\ EndOfDataPos(d) = {Len(d) - 4}

\* what is written for AUTH LOGIN, the user name and the password
CredentialPayloads ==
    {<<"AUTH LOGIN">> \o CRLF, Base64(SmtpUserBytes) \o CRLF,
     Base64(SmtpPasswordBytes) \o CRLF}

\* C26: AUTH LOGIN, the base64 user name and the base64 password are written
\* on the TLS handle only, after the one TLS handshake of the run succeeded;
\* a run whose handshake failed or whose STARTTLS was refused writes none.
C26_CredentialsOnlyOverTls ==
    /\ \A i \in 1..Len(written) :
         (written[i].step \in {"auth", "user", "pass"}
            \/ written[i].data \in CredentialPayloads)
         => /\ written[i].via = "tls"
            /\ tlsConn
            /\ Len(handshakes) = 1
    /\ ~tlsConn => \A s \in {"auth", "user", "pass"} : ~Wrote(s)
    /\ (srv # "reset" /\ srvSent["starttls"] # <<>>
          /\ ~StartsWith(srvSent["starttls"], C220))
       => \A s \in {"auth", "user", "pass"} : ~Wrote(s)

C26_Witness ==
    /\ ~cfg.secure
    /\ Len(written) = 6
    /\ written[2].via = "plain" /\ written[2].data = <<"STARTTLS", CR, LF>>
    /\ written[4].via = "tls" /\ written[4].data = <<"AUTH LOGIN", CR, LF>>
    /\ written[5].data = <<"b", "U", "B", "4", CR, LF>>
    /\ written[6].via = "tls" /\ written[6].step = "pass"

\* C27: the address written in MAIL FROM is the from field of the request
\* and the address written in RCPT TO is its to field.
C27_EnvelopeFromRequest ==
    \A i \in 1..Len(written) :
       /\ written[i].step = "mail" =>
            written[i].data = <<"MAIL FROM:<", options.from, ">", CR, LF>>
       /\ written[i].step = "rcpt" =>
            written[i].data = <<"RCPT TO:<", options.to, ">", CR, LF>>

\* the calls that updated the bill to paid for payment p
UpdatesFor(p) ==
    {r \in CallIds : calls[r].updated /\ calls[r].paymentId = p}

\* the calls whose invoice e-mail for payment p was sent
InvoicesFor(p) ==
    {r \in CallIds : calls[r].invoice = "sent" /\ calls[r].paymentId = p}

\* C28: for the bill and each payment id, whatever the interleaving of
\* verification requests and webhook deliveries, at most one call updates
\* the bill to paid and at most one invoice e-mail is sent; a call that
\* answers "Bill already paid" has not updated and has not sent an e-mail
C28_IdempotentPerPayment ==
    /\ \A p \in PaymentIds :
         /\ Cardinality(UpdatesFor(p)) <= 1
         /\ Cardinality(InvoicesFor(p)) <= 1
    /\ \A r \in CallIds :
         calls[r].response.message = "Bill already paid"
           => /\ calls[r].response.status = 200
              /\ ~calls[r].updated
              /\ calls[r].invoice = "none"

\* the request carries what only the payment gateway can produce
Authenticated(c) ==
    IF c.kind = "verify"
    THEN /\ c.signature = Hmac(KeySecret, SignedText(c.orderId, c.paymentId))
         /\ StatusSuccessful(c.status)
    ELSE c.signature = Hmac(KeySecret, c.body)

\* the call changed nothing: no update of the bill, no invoice e-mail
ChangedNothing(c) == ~c.updated /\ c.invoice = "none"

\* C29: a call updates the bill or runs the invoice e-mail only if its
\* signature is the HMAC-SHA256 of orderId|paymentId (verification, where
\* the gateway must also report authorized or captured) or of the raw body
\* (webhook); a webhook whose signature header differs from that HMAC is
\* answered 401; the bill is paid only through an authenticated call
C29_OnlyAuthenticatedPays ==
    /\ \A r \in CallIds :
         /\ ~Authenticated(calls[r]) => ChangedNothing(calls[r])
         /\ ( /\ calls[r].kind = "webhook"
              /\ calls[r].pc = "done"
              /\ razorpayKeySecret = KeySecret
              /\ calls[r].signature # NoHeader
              /\ calls[r].signature # Hmac(KeySecret, calls[r].body) )
            => calls[r].response.status = 401
         /\ ( /\ calls[r].kind = "verify"
              /\ calls[r].pc = "done"
              /\ ~Authenticated(calls[r]) )
            => calls[r].response.status = 400
    /\ bill.paid =>
         \E r \in CallIds : Authenticated(calls[r]) /\ calls[r].updated

\* a replayed webhook signature and a forged verification signature have
\* both been turned down and the bill is still unpaid
C29_Witness ==
    /\ ~bill.paid
    /\ \E r \in CallIds :
         /\ calls[r].kind = "webhook"
         /\ calls[r].signature = Hmac(KeySecret, Tampered(calls[r].body))
         /\ calls[r].response = Respond(401, "Invalid signature")
    /\ \E r \in CallIds :
         /\ calls[r].kind = "verify"
         /\ calls[r].signature =
              Hmac(KeySecret, SignedText(calls[r].paymentId, calls[r].orderId))
         /\ calls[r].response = Respond(400, "Invalid payment signature")

\* C30: the invoice e-mail block runs only in a call that has updated the
\* bill; whatever its outcome (bill not fetched, no guest address, PDF
\* failed, SMTP send failed, sent) the bill stays paid and the call
\* answers 200, "success" from verification and "received" from the webhook
C30_InvoiceFailureKeepsPayment ==
    \A r \in CallIds :
      /\ calls[r].invoice # "none" => calls[r].updated
      /\ calls[r].updated => bill.paid
      /\ (calls[r].updated /\ calls[r].pc = "done")
           => /\ calls[r].invoice \in InvoiceOutcomes
              /\ calls[r].response =
                   Respond(200, IF calls[r].kind = "verify" THEN "success"
                                ELSE "received")

\* a verification whose SMTP send failed and a webhook whose PDF failed
\* have both answered 200 and the bill is paid
C30_Witness ==
    /\ bill.paid
    /\ \E r \in CallIds :
         /\ calls[r].kind = "verify"
         /\ calls[r].updated
         /\ calls[r].invoice = "smtp failed"
         /\ calls[r].response = Respond(200, "success")
    /\ \E r \in CallIds :
         /\ calls[r].kind = "webhook"
         /\ calls[r].updated
         /\ calls[r].invoice = "pdf failed"
         /\ calls[r].response = Respond(200, "received")

====
